---- MODULE Spec2Model ----
(***************************************************************************)
(* A model of kanongil/validate: lib/index.js (the Validator: registry     *)
(* lookup, artifact fetch with digest check, git checkout resolution and   *)
(* the diff of the two trees) and bin/validate (the recursive dependency   *)
(* walker with its result memo).                                           *)
(*                                                                         *)
(* Strings the code takes apart (split, startsWith, trim) are sequences of *)
(* tokens, cut so that every such operation falls on a token boundary;     *)
(* strings the code only compares or concatenates are TLA+ strings.        *)
(***************************************************************************)
EXTENDS Naturals, Sequences, FiniteSets, TLC

\* ------------------------------------------------------------------ bounds

\* the diff tool reports at most this many entries (lines or hunks)
MaxDiffEntries == 2

\* ------------------------------------------------------- JavaScript values

Undefined == "undefined"

\* truthiness of a string-or-undefined value
Truthy(x) == x \notin {Undefined, ""}

Min(a, b) == IF a < b THEN a ELSE b

IsSpace(c) == c \in {" ", "\n"}

RECURSIVE TrimLeft(_)
TrimLeft(s) == IF s # <<>> /\ IsSpace(Head(s)) THEN TrimLeft(Tail(s)) ELSE s

RECURSIVE TrimRight(_)
TrimRight(s) ==
    IF s # <<>> /\ IsSpace(s[Len(s)]) THEN TrimRight(SubSeq(s, 1, Len(s) - 1)) ELSE s

\* String.prototype.trim
Trim(s) == TrimRight(TrimLeft(s))

\* String.prototype.split(sep): the pieces between the separators
RECURSIVE Split(_, _)
Split(s, sep) ==
    IF \E i \in 1..Len(s) : s[i] = sep
    THEN LET i == CHOOSE k \in 1..Len(s) :
                      s[k] = sep /\ \A j \in 1..(k - 1) : s[j] # sep
         IN  <<SubSeq(s, 1, i - 1)>> \o Split(SubSeq(s, i + 1, Len(s)), sep)
    ELSE <<s>>

\* String.prototype.split(sep, limit): at most limit pieces, the rest dropped
SplitLimit(s, sep, limit) ==
    LET p == Split(s, sep) IN SubSeq(p, 1, Min(limit, Len(p)))

\* Array.prototype.join(sep)
RECURSIVE Join(_, _)
Join(lines, sep) ==
    IF lines = <<>> THEN <<>>
    ELSE IF Len(lines) = 1 THEN lines[1]
    ELSE lines[1] \o <<sep>> \o Join(Tail(lines), sep)

\* String.prototype.startsWith
StartsWith(s, p) == Len(s) >= Len(p) /\ SubSeq(s, 1, Len(p)) = p

\* the string a token sequence spells
RECURSIVE Text(_)
Text(s) == IF s = <<>> THEN "" ELSE Head(s) \o Text(Tail(s))

RECURSIVE Flatten(_)
Flatten(ss) == IF ss = <<>> THEN <<>> ELSE Head(ss) \o Flatten(Tail(ss))

SeqsUpTo(S, n) == UNION {[1..k -> S] : k \in 0..n}

\* ---------------------------------------------------------------- errors

NoDetails == [pkg |-> Undefined, version |-> Undefined, diff |-> <<>>, own |-> FALSE]

\* a plain Error: it has no details property
Err(message) == [message |-> message, details |-> NoDetails]

NoErr == Err("")

\* internals.ValidationError: the constructor keeps pkg, version and diff of
\* its second argument and nothing else
ValidationError(message, arg) ==
    [message |-> message,
     details |-> [pkg |-> arg.pkg, version |-> arg.version, diff |-> arg.diff,
                  own |-> TRUE]]

\* ----------------------------------------------------------------- Taint

NoTaintDetails == [expected |-> Undefined, found |-> Undefined]

Taint(reason, details) == [reason |-> reason, details |-> details]

\* the shared instance internals.Taint.none
TaintNone == Taint(Undefined, NoTaintDetails)

\* a clean() that every Taint passes
cleanAlways(t) == TRUE

\* Taint.prototype.clean
clean(t) == t = TaintNone

\* -------------------------------------------------- registry record (info)

Version == "1.0.0"

\* repository urls, cut at the ':' and after the host part
UrlGitHttps == <<"git+https", ":", "//github.com/", "o/r.git">>
UrlHttps    == <<"https", ":", "//github.com/", "o/r.git">>
UrlOther    == <<"https", ":", "//gitlab.com/", "o/r.git">>

RepoUrls == {UrlGitHttps, UrlHttps, UrlOther}

NoRepository == [type |-> Undefined, url |-> <<>>]

Repositories == {NoRepository} \cup {[type |-> "git", url |-> u] : u \in RepoUrls}

\* the artifact the server sends: the published bytes, or other bytes
Artifacts == {"published", "altered"}

\* the hex digest of an artifact (Crypto.createHash(alg) ... digest('hex'))
HexDigest(alg, artifact) ==
    CASE alg = "sha1"   /\ artifact = "published" -> "a1"
      [] alg = "sha1"   /\ artifact = "altered"   -> "b2"
      [] alg = "sha512" /\ artifact = "published" -> "c3"
      [] alg = "sha512" /\ artifact = "altered"   -> "d4"
      [] OTHER -> ""

\* Buffer.from(hash, 'base64').toString('hex'), on one-byte hashes
HexOfBase64(b) ==
    CASE b = "ww==" -> "c3"
      [] b = "1A==" -> "d4"
      [] b = "oQ==" -> "a1"
      [] b = "WW==" -> "59"
      [] OTHER -> ""

\* hex digits in lower case
LowerHex(h) ==
    CASE h = "A1" -> "a1"
      [] h = "B2" -> "b2"
      [] h = "C3" -> "c3"
      [] OTHER -> h

\* dist of a record that was published with the "published" artifact
DistBoth      == [tarball |-> "url", integrity |-> <<"sha512", "-", "ww==">>, shasum |-> "a1"]
DistShasum    == [tarball |-> "url", integrity |-> <<>>, shasum |-> "a1"]
DistShasumUp  == [tarball |-> "url", integrity |-> <<>>, shasum |-> "A1"]
DistNoHash    == [tarball |-> "url", integrity |-> <<>>, shasum |-> Undefined]

Dists == {DistBoth, DistShasum, DistShasumUp, DistNoHash}

GitHeads == {Undefined, "H"}

\* the commits a checked-out tag can point at
Commits == {"H", "H2"}

NoDeps == <<>>

MkInfo(name, version, gitHead, repository, dist, deps) ==
    [name |-> name, version |-> version, gitHead |-> gitHead,
     repository |-> repository, dist |-> dist, dependencies |-> deps]


NoInfo == MkInfo(Undefined, Undefined, Undefined, NoRepository, DistNoHash, NoDeps)

\* the records `npm view` can answer with for the version under check
Infos ==
    {MkInfo("pkg", Version, h, r, d, NoDeps) : h \in GitHeads, r \in Repositories, d \in Dists}

\* an older version of the same package, listed first in an ambiguous answer
OlderInfo == MkInfo("pkg", "0.9.0", Undefined, NoRepository, DistNoHash, NoDeps)

\* this._details: null, a parsed object (with or without a name) or an array
NullDetails  == [kind |-> "null", items |-> <<>>]
EmptyObject  == [kind |-> "object", items |-> <<>>]
Object(info) == [kind |-> "object", items |-> <<info>>]
Array(infos) == [kind |-> "array", items |-> infos]

\* what `npm view -json` prints, parsed: nothing, one record, or a list
Answers == {EmptyObject} \cup {Object(i) : i \in Infos}
               \cup {Array(<<OlderInfo, i>>) : i \in Infos}

\* ------------------------------------------------------------ Validator

\* new Validator(packageName, version, options)
NewValidator(packageName, version, options) ==
    [package |-> packageName, version |-> version, options |-> options,
     _details |-> NullDetails]

\* a property read: undefined when the object has no such property
Prop(obj, name) == IF name \in DOMAIN obj THEN obj[name] ELSE Undefined

\* a fetchDetails that takes the first candidate of a list
fetchDetailsFirst(v, json) ==
    LET d1 == IF v._details.kind = "null" THEN json ELSE v._details
        tooLoose == d1.kind = "array" /\ ~v.options.loose
        d2 == IF d1.kind = "array" /\ ~tooLoose THEN Object(d1.items[1]) ELSE d1
    IN  IF tooLoose
        THEN [details |-> d1, err |-> Err("Version specifier is too loose"), info |-> NoInfo]
        ELSE IF d2.items = <<>>
        THEN [details |-> d2, err |-> Err("Failed to find package / version"), info |-> NoInfo]
        ELSE [details |-> d2, err |-> NoErr, info |-> d2.items[1]]

\* fetchDetails once `npm view` has answered json (or with the cached
\* _details when there is one): the new _details and the record or the error
fetchDetails(v, json) ==
    LET d1 == IF v._details.kind = "null" THEN json ELSE v._details
        tooLoose == d1.kind = "array" /\ ~v.options.loose
        d2 == IF d1.kind = "array" /\ ~tooLoose
              THEN Object(d1.items[Len(d1.items)])
              ELSE d1
    IN  IF tooLoose
        THEN [details |-> d1, err |-> Err("Version specifier is too loose"), info |-> NoInfo]
        ELSE IF d2.items = <<>>
        THEN [details |-> d2, err |-> Err("Failed to find package / version"), info |-> NoInfo]
        ELSE [details |-> d2, err |-> NoErr, info |-> d2.items[1]]

\* internals.packageHash
packageHash(i) ==
    IF i.dist.integrity # <<>>
    THEN LET parts == SplitLimit(i.dist.integrity, "-", 2)
         IN  [err |-> NoErr, alg |-> Text(parts[1]),
              hash |-> HexOfBase64(Text(parts[2]))]
    ELSE IF Truthy(i.dist.shasum)
    THEN [err |-> NoErr, alg |-> "sha1", hash |-> i.dist.shasum]
    ELSE [err |-> Err("No package hash"), alg |-> "", hash |-> ""]

\* a comparison that accepts every digest
digestAcceptedAlways(digest, hash) == TRUE

\* the digest comparison that ends fetchPackageSource
digestAccepted(digest, hash) == digest = hash

\* fetchGitSource: const parts = repoUrl.split(':', 2)
urlParts(url) == SplitLimit(url, ":", 2)

isGithubUrl(url) ==
    Len(urlParts(url)) = 2 /\ StartsWith(urlParts(url)[2], <<"//github.com/">>)

\* the url handed to git: git+https: and git: urls of github become https:
repoUrlOf(url) ==
    IF isGithubUrl(url) /\ Text(urlParts(url)[1]) \in {"git+https", "git"}
    THEN <<"https", ":">> \o urlParts(url)[2]
    ELSE url

\* the first ref tried; the second is the version itself
vTag(i) == "v" \o i.version

\* verifyHead with a missing gitHead taken for nothing to compare with
verifyHeadMissingIsClean(i, stdout) ==
    LET gitRev == Text(Trim(stdout))
    IN  IF Truthy(i.gitHead) /\ gitRev # i.gitHead
        THEN Taint("sha-mismatch", [expected |-> i.gitHead, found |-> gitRev])
        ELSE TaintNone

\* verifyHead with the two shas of the details exchanged
verifyHeadSwapped(i, stdout) ==
    LET gitRev == Text(Trim(stdout))
    IN  IF gitRev = "" \/ gitRev # i.gitHead
        THEN Taint(IF Truthy(i.gitHead) THEN "sha-mismatch" ELSE "sha-missing",
                   [expected |-> gitRev, found |-> i.gitHead])
        ELSE TaintNone

\* after a tag clone: classify the checkout by the sha `git rev-parse` printed
verifyHead(i, stdout) ==
    LET gitRev == Text(Trim(stdout))
    IN  IF gitRev = "" \/ gitRev # i.gitHead
        THEN Taint(IF Truthy(i.gitHead) THEN "sha-mismatch" ELSE "sha-missing",
                   [expected |-> i.gitHead, found |-> gitRev])
        ELSE TaintNone

\* the catch of the outer try: is the fetch by sha attempted?
fallbackAllowed(isGithub, i) == isGithub /\ Truthy(i.gitHead)

\* the tainted result with the bare tag alone in its details
tagMissingBareOnly(i) == Taint("tag-missing", [expected |-> <<i.version>>])

\* the result of the fetch by sha
tagMissing(i) == Taint("tag-missing", [expected |-> <<vTag(i), i.version>>])

\* how check() ends, before its finally block has run
NoTaintYet == Taint("", NoTaintDetails)
Return(t) == [kind |-> "return", taint |-> t, err |-> NoErr]
Throw(e)  == [kind |-> "throw", taint |-> NoTaintYet, err |-> e]
NoOutcome == [kind |-> "none", taint |-> NoTaintYet, err |-> NoErr]

OnlyInGit == <<"Only in git">>

\* a filter that drops the lines of both trees' own paths
filterLinesEitherTree(lines) ==
    SelectSeq(lines, LAMBDA line : ~(StartsWith(line, OnlyInGit)
                                      \/ StartsWith(line, <<"Only in package">>)))

\* the lines of the diff output that are kept
filterLines(lines) == SelectSeq(lines, LAMBDA line : ~StartsWith(line, OnlyInGit))

\* the diff text of a diff output
diffText(stdout) == Trim(Join(filterLines(Split(stdout, "\n")), "\n"))

ErrDiff == Err("Command failed: diff")

\* a diffOutcome that treats a tainted checkout as a failure
diffOutcomeTaintThrows(v, t, code, stdout) ==
    IF ~clean(t) THEN Throw(Err("tainted"))
    ELSE IF code = 0 \/ (code \in {1, 2} /\ stdout # <<>> /\ diffText(stdout) = <<>>)
    THEN Return(t)
    ELSE Throw(ErrDiff)

\* check(): what follows the diff tool's exit with code and stdout
diffOutcome(v, t, code, stdout) ==
    IF code = 0 THEN Return(t)
    ELSE IF code \in {1, 2} /\ stdout # <<>>
    THEN IF diffText(stdout) # <<>>
         THEN Throw(ValidationError("Mismatch",
                        [pkg |-> Prop(v, "pkg"), version |-> v.version,
                         diff |-> diffText(stdout), taint |-> t]))
         ELSE Return(t)
    ELSE Throw(ErrDiff)

\* what the diff tool can print: entries, each ended by a newline
DiffOnlyGit    == <<"Only in git", ": ", ".git">>
DiffOnlyGitSub == <<"Only in git", "/lib: ", "t.js">>
DiffOnlyPkg    == <<"Only in package", ": ", "x.js">>
DiffHunk       == <<"diff -r -u git/a package/a", "\n", "-", "x", "\n", "+", "y">>
DiffHunkSpace  == <<"diff -r -u git/b package/b", "\n", "+", "z", " ">>

DiffEntries == {DiffOnlyGit, DiffOnlyGitSub, DiffOnlyPkg, DiffHunk, DiffHunkSpace}

DiffOutputs ==
    {Flatten([i \in DOMAIN es |-> es[i] \o <<"\n">>]) : es \in SeqsUpTo(DiffEntries, MaxDiffEntries)}

DiffCodes == {0, 1, 2, 3}


\* ------------------------------------------------------------------ state

VARIABLES
    validator,  \* the Validator under check(): package, version, options, _details
    cpc,        \* where check() is
    ppc,        \* where its fetchPackageSource(pkgPath) is
    gpc,        \* where its fetchGitSource(gitPath) is
    fs,         \* the directories that exist, among tmpDir and its two children
    pkg,        \* fetchPackageSource: what it has seen and how it ended
    git,        \* fetchGitSource: its locals, what it did and how it ended
    diffr,      \* the diff tool's run: exit code and output
    out,        \* how check() ends: a returned Taint or a thrown error
    args,       \* bin/validate: the parsed command line (p, l, r)
    wpc,        \* bin/validate: not started, walking, or exited
    results,    \* bin/validate: the memo, a Map from key to undefined or a Taint
    exiting,    \* bin/validate: set by SIGINT
    stack,      \* the validate() calls in progress, the innermost last
    world,      \* per package name: what the registry and the network hold
    checked,    \* the name@version of every check() call made, in order
    reported,   \* what every validate() call that returned has returned, in order
    exitCode    \* the exit code of the process

checkVars == <<validator, cpc, ppc, gpc, fs, pkg, git, diffr, out>>

walkVars == <<args, wpc, results, exiting, stack, world, checked, reported, exitCode>>

vars == <<validator, cpc, ppc, gpc, fs, pkg, git, diffr, out,
          args, wpc, results, exiting, stack, world, checked, reported, exitCode>>

tmpDir  == "tmp"
pkgPath == "tmp/package"
gitPath == "tmp/git"

PkgInit == [status |-> "", artifact |-> "", digest |-> "", hash |-> "", err |-> NoErr]

GitInit ==
    [isGithub |-> FALSE, repoUrl |-> <<>>, cloneV |-> "", cloneBare |-> "",
     errV |-> NoErr, gitRev |-> "", wiped |-> FALSE, remote |-> <<>>,
     fetched |-> <<>>, checkout |-> "", res |-> NoTaintYet, err |-> NoErr]

DiffInit == [ran |-> FALSE, code |-> 0, stdout |-> <<>>]

\* the record all three functions of one check() read (fetchDetails is cached)
info == validator._details.items[1]

CheckIdle ==
    /\ cpc = "idle" /\ ppc = "idle" /\ gpc = "idle"
    /\ fs = {} /\ pkg = PkgInit /\ git = GitInit /\ diffr = DiffInit
    /\ out = NoOutcome

\* ---------------------------------------------------------------- check()

\* Promise.all of the two branches, seen when a branch ends: the first error
\* rejects it at once (the finally block starts), two results resolve it (the
\* diff starts); it is not waiting any more once check() has moved on
promiseAll(p, g, e) ==
    IF cpc # "all" THEN UNCHANGED <<cpc, out>>
    ELSE IF e # NoErr THEN cpc' = "finally" /\ out' = Throw(e)
    ELSE IF p = "done" /\ g = "done" THEN cpc' = "diff" /\ UNCHANGED out
    ELSE UNCHANGED <<cpc, out>>

\* Both branches run up to their first command or request as soon as they
\* are called, fetchPackageSource first: nothing that waits for the outside
\* world ends before they have
started == ppc # "start" /\ gpc # "start"

\* check(): Fs.mkdir(tmpDir), outside the try
CheckMkdir ==
    /\ cpc = "mkdir"
    /\ \/ /\ fs' = fs \cup {tmpDir}
          /\ cpc' = "details"
          /\ UNCHANGED out
       \/ /\ cpc' = "settled"
          /\ out' = Throw(Err("mkdir failed"))
          /\ UNCHANGED fs
    /\ UNCHANGED <<validator, ppc, gpc, pkg, git, diffr>>
    /\ UNCHANGED walkVars

\* check(): await this.fetchDetails(), then both branches are started
CheckDetails ==
    /\ cpc = "details"
    /\ \/ \E json \in Answers :
            LET r == fetchDetails(validator, json) IN
            /\ validator' = [validator EXCEPT !._details = r.details]
            /\ IF r.err = NoErr
               THEN cpc' = "all" /\ ppc' = "start" /\ gpc' = "start" /\ UNCHANGED out
               ELSE cpc' = "finally" /\ out' = Throw(r.err) /\ UNCHANGED <<ppc, gpc>>
       \/ /\ cpc' = "finally"
          /\ out' = Throw(Err("Command failed: npm view"))
          /\ UNCHANGED <<validator, ppc, gpc>>
    /\ UNCHANGED <<fs, pkg, git, diffr>>
    /\ UNCHANGED walkVars

\* check(): the diff tool has exited
CheckDiff ==
    /\ cpc = "diff" /\ started
    /\ \E code \in DiffCodes, stdout \in DiffOutputs :
          /\ code = 0 => stdout = <<>>
          /\ diffr' = [ran |-> TRUE, code |-> code, stdout |-> stdout]
          /\ out' = diffOutcome(validator, git.res, code, stdout)
    /\ cpc' = "finally"
    /\ UNCHANGED <<validator, ppc, gpc, fs, pkg, git>>
    /\ UNCHANGED walkVars

\* check(): the finally block, rm -rf tmpDir, after which check() settles
CheckFinally ==
    /\ cpc = "finally" /\ started
    /\ fs' = {}
    /\ cpc' = "settled"
    /\ UNCHANGED <<validator, ppc, gpc, pkg, git, diffr, out>>
    /\ UNCHANGED walkVars

\* ---------------------------------------------------- fetchPackageSource

pkgFail(e) ==
    /\ ppc' = "failed"
    /\ promiseAll("failed", gpc, e)

\* up to Wreck.request: the record must name a tarball
PkgStart ==
    /\ ppc = "start"
    /\ IF Truthy(info.dist.tarball)
       THEN ppc' = "request" /\ UNCHANGED <<cpc, out, pkg>>
       ELSE pkgFail(Err("Missing package url")) /\ pkg' = [pkg EXCEPT !.err = Err("Missing package url")]
    /\ UNCHANGED <<validator, gpc, fs, git, diffr>>
    /\ UNCHANGED walkVars

\* the response arrives: only a 200 goes on to Fs.mkdir(dst)
PkgResponse ==
    /\ ppc = "request" /\ started
    /\ \E status \in {"200", "404", "error"} :
          IF status = "200"
          THEN /\ ppc' = "mkdir"
               /\ pkg' = [pkg EXCEPT !.status = status]
               /\ UNCHANGED <<cpc, out>>
          ELSE /\ pkgFail(Err("Bad server response"))
               /\ pkg' = [pkg EXCEPT !.status = status, !.err = Err("Bad server response")]
    /\ UNCHANGED <<validator, gpc, fs, git, diffr>>
    /\ UNCHANGED walkVars

\* Fs.mkdir(dst) needs the parent and no dst; then tar is spawned and
\* packageHash(info) is read, which throws when the record has no hash
PkgMkdir ==
    /\ ppc = "mkdir" /\ started
    /\ IF tmpDir \in fs /\ pkgPath \notin fs
       THEN /\ fs' = fs \cup {pkgPath}
            /\ IF packageHash(info).err = NoErr
               THEN ppc' = "stream" /\ UNCHANGED <<cpc, out, pkg>>
               ELSE /\ pkgFail(packageHash(info).err)
                    /\ pkg' = [pkg EXCEPT !.err = packageHash(info).err]
       ELSE /\ pkgFail(Err("mkdir failed"))
            /\ pkg' = [pkg EXCEPT !.err = Err("mkdir failed")]
            /\ UNCHANGED fs
    /\ UNCHANGED <<validator, gpc, git, diffr>>
    /\ UNCHANGED walkVars

\* Promise.all([fetchDone, tarDone]) ends, and on success the digest of the
\* bytes that were streamed is compared with the hash of the record
PkgStreamDone ==
    /\ ppc = "stream" /\ started
    /\ \/ \E artifact \in Artifacts :
            LET h == packageHash(info)
                digest == HexDigest(h.alg, artifact)
            IN  /\ pkgPath \in fs
                /\ IF digestAccepted(digest, h.hash)
                   THEN /\ ppc' = "done"
                        /\ promiseAll("done", gpc, NoErr)
                        /\ pkg' = [pkg EXCEPT !.artifact = artifact, !.digest = digest,
                                              !.hash = h.hash]
                   ELSE /\ pkgFail(Err("Bad package hash"))
                        /\ pkg' = [pkg EXCEPT !.artifact = artifact, !.digest = digest,
                                              !.hash = h.hash, !.err = Err("Bad package hash")]
       \/ \E e \in {Err("Aborted request"), Err("Abnormal exit")} :
            /\ pkgFail(e)
            /\ pkg' = [pkg EXCEPT !.err = e]
    /\ UNCHANGED <<validator, gpc, fs, git, diffr>>
    /\ UNCHANGED walkVars


\* -------------------------------------------------------- fetchGitSource

gitFail(e) ==
    /\ gpc' = "failed"
    /\ promiseAll(ppc, "failed", e)

gitDone ==
    /\ gpc' = "done"
    /\ promiseAll(ppc, "done", NoErr)

\* the catch of the outer try (lines 205-208) with the error it caught: the
\* error is thrown on, or the fetch by sha begins
gitCatch(e, g) ==
    IF fallbackAllowed(g.isGithub, info)
    THEN /\ gpc' = "fbRm"
         /\ git' = g
         /\ UNCHANGED <<cpc, out>>
    ELSE /\ gitFail(e)
         /\ git' = [g EXCEPT !.err = e]

\* up to the first clone: the record must name a git repository
GitStart ==
    /\ gpc = "start" /\ ppc # "start"
    /\ IF info.repository.type = "git" /\ info.repository.url # <<>>
       THEN /\ gpc' = "cloneV"
            /\ git' = [git EXCEPT !.isGithub = isGithubUrl(info.repository.url),
                                  !.repoUrl = repoUrlOf(info.repository.url)]
            /\ UNCHANGED <<cpc, out>>
       ELSE /\ gitFail(Err("Did not find git repo url"))
            /\ git' = [git EXCEPT !.err = Err("Did not find git repo url")]
    /\ UNCHANGED <<validator, ppc, fs, pkg, diffr>>
    /\ UNCHANGED walkVars

\* git clone --depth 1 --single-branch repoUrl -b v<version> dst has exited.
\* A clone creates dst with its leading directories; the tag points at some
\* commit of the repository
GitCloneV ==
    /\ gpc = "cloneV" /\ started
    /\ \/ \E c \in Commits :
            /\ gitPath \notin fs
            /\ fs' = fs \cup {tmpDir, gitPath}
            /\ git' = [git EXCEPT !.cloneV = vTag(info), !.checkout = c]
            /\ gpc' = "revParse"
       \/ /\ git' = [git EXCEPT !.cloneV = "failed", !.errV = Err("clone -b v failed")]
          /\ gpc' = "cloneBare"
          /\ UNCHANGED fs
    /\ UNCHANGED <<validator, cpc, ppc, pkg, diffr, out>>
    /\ UNCHANGED walkVars

\* the retry without the v prefix has exited; when it fails too the error of
\* the first clone is the one thrown, into the outer catch
GitCloneBare ==
    /\ gpc = "cloneBare" /\ started
    /\ \/ \E c \in Commits :
            /\ gitPath \notin fs
            /\ fs' = fs \cup {tmpDir, gitPath}
            /\ git' = [git EXCEPT !.cloneBare = info.version, !.checkout = c]
            /\ gpc' = "revParse"
            /\ UNCHANGED <<cpc, out>>
       \/ /\ gitCatch(git.errV, [git EXCEPT !.cloneBare = "failed"])
          /\ UNCHANGED fs
    /\ UNCHANGED <<validator, ppc, pkg, diffr>>
    /\ UNCHANGED walkVars

\* git rev-parse --verify HEAD in dst has exited: it prints the sha of the
\* checkout, or fails (dst is gone, or git does) into the outer catch
GitRevParse ==
    /\ gpc = "revParse" /\ started
    /\ \/ /\ gitPath \in fs
          /\ LET stdout == <<git.checkout, "\n">> IN
             git' = [git EXCEPT !.gitRev = Text(Trim(stdout)),
                                !.res = verifyHead(info, stdout)]
          /\ gitDone
       \/ gitCatch(Err("rev-parse failed"), git)
    /\ UNCHANGED <<validator, ppc, fs, pkg, diffr>>
    /\ UNCHANGED walkVars

\* one command of the fetch by sha has exited: it worked (ok holds what it
\* needs to work) and the next one starts, or its error is thrown
fallbackStep(step, next, ok, g) ==
    /\ gpc = step /\ started
    /\ \/ /\ ok
          /\ git' = g
          /\ IF next = "done" THEN gitDone ELSE gpc' = next /\ UNCHANGED <<cpc, out>>
       \/ /\ gitFail(Err(step))
          /\ git' = [git EXCEPT !.err = Err(step)]
          /\ UNCHANGED fs
    /\ UNCHANGED <<validator, ppc, pkg, diffr>>
    /\ UNCHANGED walkVars

\* rm -rf dst
GitFallbackRm ==
    /\ fallbackStep("fbRm", "fbMkdir", TRUE, [git EXCEPT !.wiped = TRUE, !.checkout = ""])
    /\ gpc' # "failed" => fs' = fs \ {gitPath}

\* Fs.mkdir(dst)
GitFallbackMkdir ==
    /\ fallbackStep("fbMkdir", "fbInit", tmpDir \in fs /\ gitPath \notin fs, git)
    /\ gpc' # "failed" => fs' = fs \cup {gitPath}

\* git init, in dst
GitFallbackInit ==
    /\ fallbackStep("fbInit", "fbRemote", gitPath \in fs, git)
    /\ gpc' # "failed" => UNCHANGED fs

\* git remote add origin repoUrl, in dst
GitFallbackRemote ==
    /\ fallbackStep("fbRemote", "fbFetch", gitPath \in fs, [git EXCEPT !.remote = git.repoUrl])
    /\ gpc' # "failed" => UNCHANGED fs

\* git fetch --depth 1 origin <gitHead>, in dst
GitFallbackFetch ==
    /\ fallbackStep("fbFetch", "fbCheckout", gitPath \in fs,
                    [git EXCEPT !.fetched = <<info.gitHead, "--depth", "1">>])
    /\ gpc' # "failed" => UNCHANGED fs

\* git checkout FETCH_HEAD, in dst, and the tainted result
GitFallbackCheckout ==
    /\ fallbackStep("fbCheckout", "done", gitPath \in fs /\ git.fetched # <<>>,
                    [git EXCEPT !.checkout = git.fetched[1], !.res = tagMissing(info)])
    /\ gpc' # "failed" => UNCHANGED fs

\* ------------------------------------------- check() as one step of a walk

\* what the outside world does during one check(): the commit each tag
\* clone checks out (or "failed"), whether rev-parse and the fetch by sha
\* work, the response and the bytes of the download, and the diff tool's run
MkScenario(cloneV, cloneBare, artifact, diffCode, diffOut) ==
    [cloneV |-> cloneV, cloneBare |-> cloneBare, revParse |-> "ok", fallback |-> "ok",
     status |-> "200", stream |-> "ok", artifact |-> artifact,
     diffCode |-> diffCode, diffOut |-> diffOut]

\* fetchPackageSource from its start to its end: the error it throws, if any
packageSourceError(i, scn) ==
    IF ~Truthy(i.dist.tarball) THEN Err("Missing package url")
    ELSE IF scn.status # "200" THEN Err("Bad server response")
    ELSE IF packageHash(i).err # NoErr THEN packageHash(i).err
    ELSE IF scn.stream # "ok" THEN Err("Abnormal exit")
    ELSE IF ~digestAccepted(HexDigest(packageHash(i).alg, scn.artifact), packageHash(i).hash)
    THEN Err("Bad package hash")
    ELSE NoErr

\* fetchGitSource from its start to its end: the Taint it returns or the
\* error it throws
gitSource(i, scn) ==
    LET caught(e) ==
            IF fallbackAllowed(isGithubUrl(i.repository.url), i)
            THEN IF scn.fallback = "ok"
                 THEN [err |-> NoErr, res |-> tagMissing(i)]
                 ELSE [err |-> Err(scn.fallback), res |-> NoTaintYet]
            ELSE [err |-> e, res |-> NoTaintYet]
        cloned == IF scn.cloneV # "failed" THEN scn.cloneV ELSE scn.cloneBare
    IN  IF ~(i.repository.type = "git" /\ i.repository.url # <<>>)
        THEN [err |-> Err("Did not find git repo url"), res |-> NoTaintYet]
        ELSE IF cloned = "failed" THEN caught(Err("clone -b v failed"))
        ELSE IF scn.revParse # "ok" THEN caught(Err("rev-parse failed"))
        ELSE [err |-> NoErr, res |-> verifyHead(i, <<cloned, "\n">>)]

\* check() from its start to its end, for a validator whose details are
\* fetched: the artifact error comes first when both branches fail
checkOutcome(v, scn) ==
    LET i == v._details.items[1]
        p == packageSourceError(i, scn)
        g == gitSource(i, scn)
    IN  IF p # NoErr THEN Throw(p)
        ELSE IF g.err # NoErr THEN Throw(g.err)
        ELSE diffOutcome(v, g.res, scn.diffCode, scn.diffOut)

\* ---------------------------------------------------- the registry, bounded

Packages == {"pa", "pb", "pc"}

PackageOrder == <<"pa", "pb", "pc">>

\* the version specifiers used on the command line and in dependencies:
\* an exact version, a range one version matches, a range two versions
\* match, and a version that was never published
ExactSpec == "1.0.0"
TildeSpec == "~1.0.0"
CaretSpec == "^1.0.0"
UnpublishedSpec == "2.0.0"

DepSpecs == {ExactSpec, TildeSpec, CaretSpec, UnpublishedSpec}

NoDep == ""

\* the diff of a checkout and an artifact with the same files: git's own directory
OutputOnlyGit == DiffOnlyGit \o <<"\n">>
OutputExtraFile == DiffOnlyGit \o <<"\n">> \o DiffOnlyPkg \o <<"\n">>

\* the tag is at the published commit and the artifact is the checkout's files
ScenarioClean == MkScenario("H", "failed", "published", 1, OutputOnlyGit)
\* the tag was moved to another commit
ScenarioRepointed == MkScenario("H2", "failed", "published", 1, OutputOnlyGit)
\* the artifact holds a file the checkout does not
ScenarioExtraFile == MkScenario("H", "failed", "published", 1, OutputExtraFile)

Scenarios == {ScenarioClean, ScenarioRepointed, ScenarioExtraFile}

UnknownWorld == [known |-> FALSE, deps |-> [p \in Packages |-> NoDep], scn |-> ScenarioClean]

\* the dependency edges the registry may hold: pa and pb may depend on any
\* other package, pc on none (the diamond pa -> pb, pc and pb -> pc, the
\* cycle pa -> pb -> pa and the chains are all among them)
MayDepend(p, q) == p # q /\ p # "pc"

\* the requirements that may name the unpublished version: those of pb
MayMiss(p, q) == q = "pb"

\* what can be true of one package: its dependencies (name to specifier)
\* and what a check of it meets
Worlds(p) ==
    {[known |-> TRUE, deps |-> d, scn |-> sc] :
        d \in {f \in [Packages -> DepSpecs \cup {NoDep}] :
                  \A q \in Packages :
                      /\ f[q] # NoDep => MayDepend(p, q)
                      /\ f[q] = UnpublishedSpec => MayMiss(p, q)},
        sc \in Scenarios}

\* the dependencies object of a record, as the for-in loop walks it
RECURSIVE depList(_, _)
depList(deps, order) ==
    IF order = <<>> THEN <<>>
    ELSE IF deps[Head(order)] = NoDep THEN depList(deps, Tail(order))
    ELSE <<[name |-> Head(order), spec |-> deps[Head(order)]]>>
             \o depList(deps, Tail(order))

\* the record of one version of a package
recordOf(name, version, w) ==
    MkInfo(name, version, "H", [type |-> "git", url |-> UrlGitHttps], DistBoth,
           depList(w.deps, PackageOrder))

\* `npm view -json name@spec`: versions 1.0.0 and 1.1.0 of every package exist
npmView(name, spec, w) ==
    CASE spec \in {ExactSpec, TildeSpec} -> Object(recordOf(name, "1.0.0", w))
      [] spec = CaretSpec ->
             Array(<<recordOf(name, "1.0.0", w), recordOf(name, "1.1.0", w)>>)
      [] spec = "latest" -> Object(recordOf(name, "1.1.0", w))
      [] OTHER -> EmptyObject

\* ------------------------------------------------------------ bin/validate

\* the value a pending key holds, and what a miss of Map.get gives
UndefinedResult == [undefined |-> TRUE]

has(map, key) == key \in DOMAIN map
get(map, key) == IF key \in DOMAIN map THEN map[key] ELSE UndefinedResult

\* a Map.set that keeps the key and drops the value
setPending(map, key, value) == (key :> UndefinedResult) @@ map

set(map, key, value) == (key :> value) @@ map

EmptyMap == [k \in {} |-> UndefinedResult]

\* String.prototype.lastIndexOf, 0-based, -1 as 0 - 1 is not a natural: the
\* 1-based position, 0 when absent
lastPosOf(s, c) ==
    IF \E i \in 1..Len(s) : s[i] = c
    THEN CHOOSE i \in 1..Len(s) : s[i] = c /\ \A j \in (i + 1)..Len(s) : s[j] # c
    ELSE 0

\* the main function's split of -p into package and version (lines 114-121):
\* atIndex > 1 is position > 2
parseArg(p) ==
    IF lastPosOf(p, "@") > 2
    THEN [pkg |-> Text(SubSeq(p, 1, lastPosOf(p, "@") - 1)),
          version |-> Text(SubSeq(p, lastPosOf(p, "@") + 1, Len(p)))]
    ELSE [pkg |-> Text(p), version |-> "latest"]

\* the -p values tried: a name alone, and a name with each specifier
ArgPackages ==
    {<<"p", "a">>} \cup {<<"p", "a", "@", spec>> : spec \in DepSpecs}

key(name, version) == name \o "@" \o version

\* a second look at the memo that never finds the key
versionKeyUnknown(map, versionKey) == FALSE

\* validatePkg, line 68: is the resolved-version key in the memo?
versionKeyKnown(map, versionKey) == has(map, versionKey)

\* a validate() call in progress
Frame(name, version, loose) ==
    [pkg |-> name, version |-> version, loose |-> loose, pc |-> "call",
     validator |-> NewValidator(name, version, [loose |-> loose]),
     result |-> UndefinedResult, error |-> NoErr, info |-> NoInfo,
     tainted |-> FALSE, deps |-> <<>>]

Top == stack[Len(stack)]

setTop(f) == [stack EXCEPT ![Len(stack)] = f]

WalkIdle ==
    /\ args = [p |-> <<>>, l |-> FALSE, r |-> FALSE]
    /\ wpc = "idle" /\ results = EmptyMap /\ exiting = FALSE
    /\ stack = <<>> /\ world = [p \in Packages |-> UnknownWorld]
    /\ checked = <<>> /\ reported = <<>> /\ exitCode = 0

\* the process starts: the command line is parsed and validate() is called
WalkStart ==
    /\ wpc = "start"
    /\ wpc' = "walking"
    /\ stack' = <<Frame(parseArg(args.p).pkg, parseArg(args.p).version, args.l)>>
    /\ UNCHANGED <<args, results, exiting, world, checked, reported, exitCode>>
    /\ UNCHANGED checkVars

\* validatePkg, lines 55-64: a key the memo has (even pending) is answered
\* from it; otherwise the key is set pending and `npm view` is started
ValidatePkgEnter ==
    /\ wpc = "walking" /\ Top.pc = "call"
    /\ LET queryKey == key(Top.pkg, Top.version) IN
       IF has(results, queryKey)
       THEN /\ stack' = setTop([Top EXCEPT !.result = get(results, queryKey),
                                           !.pc = "report"])
            /\ UNCHANGED results
       ELSE /\ results' = set(results, queryKey, UndefinedResult)
            /\ stack' = setTop([Top EXCEPT !.pc = "fetch"])
    /\ UNCHANGED <<args, wpc, exiting, world, checked, reported, exitCode>>
    /\ UNCHANGED checkVars

\* validatePkg, lines 65-73: fetchDetails has ended. An error is returned
\* without info; a resolved-version key the memo has is answered from it,
\* without info; otherwise that key is set pending and check() is started
ValidatePkgFetched ==
    /\ wpc = "walking" /\ Top.pc = "fetch"
    /\ \E w \in Worlds(Top.pkg) :
          /\ world[Top.pkg].known => w = world[Top.pkg]
          /\ world' = [world EXCEPT ![Top.pkg] = w]
          /\ LET r == fetchDetails(Top.validator, npmView(Top.pkg, Top.version, w))
                 v == [Top.validator EXCEPT !._details = r.details]
                 versionKey == key(Top.pkg, r.info.version)
             IN  IF r.err # NoErr
                 THEN /\ stack' = setTop([Top EXCEPT !.validator = v, !.error = r.err,
                                                     !.pc = "report"])
                      /\ UNCHANGED results
                 ELSE IF versionKeyKnown(results, versionKey)
                 THEN /\ stack' = setTop([Top EXCEPT !.validator = v,
                                                     !.result = get(results, versionKey),
                                                     !.pc = "report"])
                      /\ UNCHANGED results
                 ELSE /\ results' = set(results, versionKey, UndefinedResult)
                      /\ stack' = setTop([Top EXCEPT !.validator = v, !.info = r.info,
                                                     !.pc = "check"])
    /\ UNCHANGED <<args, wpc, exiting, checked, reported, exitCode>>
    /\ UNCHANGED checkVars

\* a validatePkg that does not catch: the error of check() ends the run
ValidatePkgCheckedUncaught ==
    /\ wpc = "walking" /\ Top.pc = "check"
    /\ LET o == checkOutcome(Top.validator, world[Top.pkg].scn)
           queryKey == key(Top.pkg, Top.version)
           versionKey == key(Top.pkg, Top.info.version)
       IN  /\ checked' = Append(checked, versionKey)
           /\ IF o.kind = "return"
              THEN /\ results' = set(set(results, versionKey, o.taint), queryKey, o.taint)
                   /\ stack' = setTop([Top EXCEPT !.result = o.taint, !.pc = "report"])
                   /\ UNCHANGED <<wpc, exitCode>>
              ELSE /\ stack' = <<>> /\ wpc' = "exited" /\ exitCode' = 255
                   /\ UNCHANGED results
    /\ UNCHANGED <<args, exiting, world, reported>>
    /\ UNCHANGED checkVars

\* validatePkg, lines 75-84: check() has ended. Its result is recorded under
\* both keys; its error is returned, with info
ValidatePkgChecked ==
    /\ wpc = "walking" /\ Top.pc = "check"
    /\ LET o == checkOutcome(Top.validator, world[Top.pkg].scn)
           queryKey == key(Top.pkg, Top.version)
           versionKey == key(Top.pkg, Top.info.version)
       IN  /\ checked' = Append(checked, versionKey)
           /\ IF o.kind = "return"
              THEN /\ results' = set(set(results, versionKey, o.taint), queryKey, o.taint)
                   /\ stack' = setTop([Top EXCEPT !.result = o.taint, !.pc = "report"])
              ELSE /\ stack' = setTop([Top EXCEPT !.error = o.err, !.pc = "report"])
                   /\ UNCHANGED results
    /\ UNCHANGED <<args, wpc, exiting, world, reported, exitCode>>
    /\ UNCHANGED checkVars

\* validate, lines 89-100: the failure is logged, the package is tainted
\* unless its result is the clean Taint, and the dependencies to walk are
\* those of info, when there is info and the walk is recursive
ValidateReport ==
    /\ wpc = "walking" /\ Top.pc = "report"
    /\ stack' = setTop([Top EXCEPT
            !.tainted = (Top.result = UndefinedResult) \/ ~clean(Top.result),
            !.deps = IF args.r /\ Top.info # NoInfo THEN Top.info.dependencies ELSE <<>>,
            !.pc = "loop"])
    /\ UNCHANGED <<args, wpc, results, exiting, world, checked, reported, exitCode>>
    /\ UNCHANGED checkVars

\* a loop without checkAbort(): the signal is never looked at
ValidateLoopNoAbort ==
    /\ wpc = "walking" /\ Top.pc = "loop"
    /\ IF Top.deps # <<>>
       THEN /\ stack' = Append(stack, Frame(Head(Top.deps).name, Head(Top.deps).spec, TRUE))
            /\ UNCHANGED <<wpc, exitCode, reported>>
       ELSE /\ reported' = Append(reported, [pkg |-> Top.pkg, version |-> Top.version,
                                             ok |-> ~Top.tainted])
            /\ IF Len(stack) = 1
               THEN /\ stack' = <<>>
                    /\ wpc' = "exited"
                    /\ exitCode' = IF Top.tainted THEN 1 ELSE 0
               ELSE LET caller == stack[Len(stack) - 1] IN
                    /\ stack' = Append(SubSeq(stack, 1, Len(stack) - 2),
                                       [caller EXCEPT !.tainted = caller.tainted \/ Top.tainted,
                                                      !.deps = Tail(caller.deps)])
                    /\ UNCHANGED <<wpc, exitCode>>
    /\ UNCHANGED <<args, results, exiting, world, checked>>
    /\ UNCHANGED checkVars

\* validate, lines 101-108, one turn of the loop: checkAbort() throws out of
\* every validate() in progress (exit 255), or validate() is called for the
\* next dependency with loose set; after the last one validate() returns
\* !tainted, to the loop of its caller or to the exit of the process
ValidateLoop ==
    /\ wpc = "walking" /\ Top.pc = "loop"
    /\ IF Top.deps # <<>>
       THEN IF exiting
            THEN /\ stack' = <<>>
                 /\ wpc' = "exited"
                 /\ exitCode' = 255
                 /\ UNCHANGED reported
            ELSE /\ stack' = Append(stack, Frame(Head(Top.deps).name, Head(Top.deps).spec, TRUE))
                 /\ UNCHANGED <<wpc, exitCode, reported>>
       ELSE /\ reported' = Append(reported, [pkg |-> Top.pkg, version |-> Top.version,
                                             ok |-> ~Top.tainted])
            /\ IF Len(stack) = 1
               THEN /\ stack' = <<>>
                    /\ wpc' = "exited"
                    /\ exitCode' = IF Top.tainted THEN 1 ELSE 0
               ELSE LET caller == stack[Len(stack) - 1] IN
                    /\ stack' = Append(SubSeq(stack, 1, Len(stack) - 2),
                                       [caller EXCEPT !.tainted = caller.tainted \/ Top.tainted,
                                                      !.deps = Tail(caller.deps)])
                    /\ UNCHANGED <<wpc, exitCode>>
    /\ UNCHANGED <<args, results, exiting, world, checked>>
    /\ UNCHANGED checkVars

\* SIGINT arrives, while the walk waits for `npm view` or for check()
Sigint ==
    /\ wpc = "walking" /\ Top.pc \in {"fetch", "check"}
    /\ ~exiting
    /\ exiting' = TRUE
    /\ UNCHANGED <<args, wpc, results, stack, world, checked, reported, exitCode>>
    /\ UNCHANGED checkVars

WalkInit ==
    /\ args \in [p : ArgPackages, l : BOOLEAN, r : BOOLEAN]
    /\ wpc = "start" /\ results = EmptyMap /\ exiting = FALSE
    /\ stack = <<>> /\ world = [p \in Packages |-> UnknownWorld]
    /\ checked = <<>> /\ reported = <<>> /\ exitCode = 0
    /\ validator = NewValidator("pkg", Version, [loose |-> FALSE])
    /\ CheckIdle

WalkNext ==
    \/ WalkStart \/ ValidatePkgEnter \/ ValidatePkgFetched \/ ValidatePkgChecked
    \/ ValidateReport \/ ValidateLoop \/ Sigint

SpecWalk == WalkInit /\ [][WalkNext]_vars

\* the steps the walk takes by itself: the event loop runs every
\* continuation that is ready
WalkOwnSteps == WalkStart \/ ValidatePkgEnter \/ ValidateReport \/ ValidateLoop

\* the walk awaits `npm view` or check()
Awaiting == wpc = "walking" /\ Top.pc \in {"fetch", "check"}

\* the walk under fair scheduling: its own steps are taken when they can be,
\* and what it awaits ends (the child processes of fetchDetails and check()
\* exit), so it is never awaiting for ever
SpecWalkFair == SpecWalk /\ WF_vars(WalkOwnSteps) /\ []<>~Awaiting

\* ------------------------------------------------- one check(), alone

CheckInit ==
    /\ \E loose \in BOOLEAN : validator = NewValidator("pkg", Version, [loose |-> loose])
    /\ cpc = "mkdir" /\ ppc = "idle" /\ gpc = "idle"
    /\ fs = {} /\ pkg = PkgInit /\ git = GitInit /\ diffr = DiffInit
    /\ out = NoOutcome
    /\ WalkIdle

CheckNext ==
    \/ CheckMkdir \/ CheckDetails \/ CheckDiff \/ CheckFinally
    \/ PkgStart \/ PkgResponse \/ PkgMkdir \/ PkgStreamDone
    \/ GitStart \/ GitCloneV \/ GitCloneBare \/ GitRevParse
    \/ GitFallbackRm \/ GitFallbackMkdir \/ GitFallbackInit
    \/ GitFallbackRemote \/ GitFallbackFetch \/ GitFallbackCheckout

SpecCheck == CheckInit /\ [][CheckNext]_vars


\* ------------------------------------------------------------ properties

\* how many times key k is in the log
Count(log, k) == Cardinality({n \in DOMAIN log : log[n] = k})

\* check() has returned or thrown
Settled == cpc = "settled"

\* a tag clone worked, and no fetch by sha followed
TagCloned == (git.cloneV = "v1.0.0" \/ git.cloneBare = "1.0.0") /\ ~git.wiped

\* C2: check() returns the clean Taint only if a clone by tag worked, the
\* record has a gitHead and the sha read from the checkout is that gitHead;
\* every other way fetchGitSource ends is a Taint that is not the clean one,
\* or an error.
C2_CleanOnlyOnHeadMatch ==
    LET matched == TagCloned /\ Truthy(info.gitHead) /\ git.gitRev = info.gitHead
                       /\ git.gitRev = git.checkout
    IN  /\ (Settled /\ out.kind = "return" /\ clean(out.taint)) => matched
        /\ (gpc = "done" /\ ~matched) => ~clean(git.res) /\ git.res # NoTaintYet
        /\ gpc = "failed" => git.err # NoErr /\ git.res = NoTaintYet

\* C2 witness: a check() that returned the clean Taint
C2_Witness == Settled /\ out.kind = "return" /\ clean(out.taint)

\* C3: once either tag clone has worked and the sha of the checkout is
\* read, the result is the clean Taint when the sha is gitHead, sha-mismatch
\* with expected gitHead and found the sha when gitHead is present and
\* differs, sha-missing with found the sha when gitHead is absent.
C3_VerifyHeadClassifies ==
    (gpc = "done" /\ TagCloned) =>
        /\ git.gitRev = git.checkout /\ git.gitRev \in Commits
        /\ git.gitRev = info.gitHead => git.res = TaintNone
        /\ (Truthy(info.gitHead) /\ git.gitRev # info.gitHead) =>
              /\ git.res.reason = "sha-mismatch"
              /\ git.res.details.expected = info.gitHead
              /\ git.res.details.found = git.checkout
        /\ ~Truthy(info.gitHead) =>
              /\ git.res.reason = "sha-missing"
              /\ git.res.details.found = git.checkout

\* C3 witness: the bare tag was cloned, it points at H2 and gitHead is H
C3_Witness ==
    /\ gpc = "done" /\ git.cloneV = "failed" /\ git.cloneBare = "1.0.0"
    /\ git.res = Taint("sha-mismatch", [expected |-> "H", found |-> "H2"])

\* the lines of a diff output that do not report a path of the git tree alone
ReportsOnlyInGit(line) == line # <<>> /\ line[1] = "Only in git"
Blank(line) == \A n \in DOMAIN line : IsSpace(line[n])
Remaining(stdout) ==
    LET lines == Split(stdout, "\n")
    IN  {n \in DOMAIN lines : ~ReportsOnlyInGit(lines[n]) /\ ~Blank(lines[n])}

\* the diff tool found nothing, or nothing but paths of the git tree alone
NothingRemains ==
    \/ diffr.code = 0
    \/ diffr.code \in {1, 2} /\ diffr.stdout # <<>> /\ Remaining(diffr.stdout) = {}

\* C4: a Taint never makes check() fail: with both branches done, whatever
\* Taint the git branch returned, the diff is run, and when nothing remains
\* of its output check() returns that very Taint.
C4_TaintIsReturned ==
    /\ (ppc = "done" /\ gpc = "done" /\ cpc \in {"finally", "settled"}) => diffr.ran
    /\ (diffr.ran /\ NothingRemains) => out = Return(git.res)
    /\ (Settled /\ out.kind = "throw" /\ ppc = "done" /\ gpc = "done") =>
           diffr.ran /\ ~NothingRemains

\* C4 witness: check() returned the tag-missing Taint after the diff ran
C4_Witness ==
    /\ Settled /\ out.kind = "return" /\ diffr.ran
    /\ out.taint.reason = "tag-missing"

FallbackSteps == {"fbRm", "fbMkdir", "fbInit", "fbRemote", "fbFetch", "fbCheckout"}

\* C5: when neither tag can be cloned, the url is a github.com one and the
\* record has a gitHead, fetchGitSource wipes dst, fetches that very sha at
\* depth 1, checks it out and returns tag-missing with the two tags tried;
\* it fails only if one of the commands of the fetch by sha fails.
C5_FallbackBySha ==
    LET noTag == git.cloneV = "failed" /\ git.cloneBare = "failed"
        allowed == isGithubUrl(info.repository.url) /\ info.gitHead = "H"
    IN  /\ (gpc = "done" /\ noTag) =>
              /\ allowed /\ git.wiped
              /\ git.fetched = <<"H", "--depth", "1">>
              /\ git.checkout = "H"
              /\ git.res = Taint("tag-missing", [expected |-> <<"v1.0.0", "1.0.0">>])
        /\ (gpc = "failed" /\ noTag /\ allowed) => git.err.message \in FallbackSteps

\* C5 witness: the fetch by sha ended well after both clones failed
C5_Witness ==
    /\ gpc = "done" /\ git.cloneV = "failed" /\ git.cloneBare = "failed"
    /\ git.res.reason = "tag-missing"


\* what the outside world did in a check() both of whose branches ended
\* well, read back from the step machine (a commit that was never read is
\* taken to be H)
scenarioOfRun ==
    LET commit == IF git.gitRev # "" THEN git.gitRev ELSE "H" IN
    [cloneV |-> IF git.cloneV = "failed" THEN "failed" ELSE commit,
     cloneBare |-> IF git.cloneBare \in {"failed", ""} THEN "failed" ELSE commit,
     revParse |-> IF git.gitRev # "" THEN "ok" ELSE "failed",
     fallback |-> "ok", status |-> pkg.status, stream |-> "ok",
     artifact |-> pkg.artifact, diffCode |-> diffr.code, diffOut |-> diffr.stdout]

\* the step machine and checkOutcome, which the walk uses for a whole
\* check(), end the same way
CheckOutcomeAgrees ==
    (Settled /\ ppc = "done" /\ gpc = "done" /\ diffr.ran) =>
        out = checkOutcome(validator, scenarioOfRun)

\* the bytes that were streamed do not hash to the hash of the record,
\* whatever the case of its hex digits
DigestDiffers == pkg.digest # "" /\ pkg.digest # LowerHex(pkg.hash)

\* C6: a digest that differs from the hash of the record is fatal to
\* check(): whatever fetchGitSource returns and whichever branch ends first,
\* the diff is never started and check() never returns a Taint.
C6_DigestMismatchIsFatal ==
    DigestDiffers =>
        /\ ppc = "failed" /\ pkg.err = Err("Bad package hash")
        /\ cpc # "diff" /\ ~diffr.ran
        /\ out.kind # "return"
        /\ Settled => out.kind = "throw"

\* C6 witness: the git branch ended first with a Taint, then the digest of
\* altered bytes was compared, and check() threw
C6_Witness ==
    /\ Settled /\ DigestDiffers /\ gpc = "done" /\ git.res.reason = "tag-missing"
    /\ out = Throw(Err("Bad package hash"))

\* line is in the diff text, up to the white space trim() removes
LineIn(line, text) ==
    \E n \in DOMAIN Split(text, "\n") : Trim(Split(text, "\n")[n]) = Trim(line)

\* C7: on exit code 1 or 2 with output, the lines that report a path of the
\* git tree alone are dropped; if nothing remains check() returns the Taint;
\* if a line remains check() throws Mismatch with a diff text that holds
\* every remaining line and no dropped one. Exit code 0 returns the Taint;
\* any other exit code, and 1 or 2 without output, rethrows the tool's error.
C7_DiffClassification ==
    diffr.ran =>
        LET lines == Split(diffr.stdout, "\n")
            text == out.err.details.diff
        IN  CASE diffr.code = 0 -> out = Return(git.res)
              [] diffr.code \in {1, 2} /\ diffr.stdout # <<>>
                     /\ Remaining(diffr.stdout) = {} -> out = Return(git.res)
              [] diffr.code \in {1, 2} /\ diffr.stdout # <<>>
                     /\ Remaining(diffr.stdout) # {} ->
                     /\ out.kind = "throw" /\ out.err.message = "Mismatch"
                     /\ \A n \in Remaining(diffr.stdout) : LineIn(lines[n], text)
                     /\ \A n \in DOMAIN Split(text, "\n") :
                            ~ReportsOnlyInGit(Split(text, "\n")[n])
              [] OTHER -> out = Throw(ErrDiff)

\* C7 witness: an output with a path of the git tree alone and a file of the
\* package tree alone ended in Mismatch
C7_Witness ==
    /\ Settled /\ diffr.ran /\ diffr.code = 1
    /\ diffr.stdout = DiffOnlyGit \o <<"\n">> \o DiffOnlyPkg \o <<"\n">>
    /\ out.err.message = "Mismatch"
    /\ out.err.details.diff = DiffOnlyPkg

\* C8: once check() has returned or thrown, its scratch directory is gone,
\* and stays gone whatever a branch still in flight does later.
C8_ScratchRemoved == Settled => fs = {}


\* the process has exited, and not through an abort
Walked == wpc = "exited" /\ exitCode # 255

\* C1: the walk of the single package pa@1.0.0, given by its exact version,
\* whose tag is at gitHead and whose artifact holds the files of the
\* checkout, runs check() for it once, records the clean Taint for it and
\* exits with code 0.
C1_CleanExactVersionExitsZero ==
    (/\ wpc = "exited" /\ ~args.r
     /\ args.p = <<"p", "a", "@", "1.0.0">>
     /\ world["pa"].known /\ world["pa"].scn = ScenarioClean) =>
        /\ checked = <<"pa@1.0.0">>
        /\ get(results, "pa@1.0.0") = TaintNone
        /\ exitCode = 0

\* C9: in one run, check() is called at most once for every name@version.
C9_CheckedAtMostOnce ==
    \A n, m \in DOMAIN checked : checked[n] = checked[m] => n = m

\* C9 witness: pa was asked for as latest and, by pb, as ^1.0.0; both are
\* pa@1.1.0, which was checked, and pb was checked too
C9_Witness ==
    /\ Walked /\ args.r /\ args.p = <<"p", "a">>
    /\ world["pa"].deps["pb"] # NoDep
    /\ world["pb"].known /\ world["pb"].deps["pa"] = CaretSpec
    /\ Count(checked, "pa@1.1.0") = 1
    /\ Count(checked, "pb@1.0.0") + Count(checked, "pb@1.1.0") = 1
    /\ has(results, "pa@^1.0.0")

\* the version a dependency specifier that some version matches resolves to
\* (dependencies are loose)
Resolved(spec) == IF spec = CaretSpec THEN "1.1.0" ELSE "1.0.0"

\* the specifier is one a published version matches
Published(spec) == spec \in {ExactSpec, TildeSpec, CaretSpec}

\* C10: in the diamond where pa requires pb and pc, pb requires pc and both
\* requirements of pc resolve to one version, a recursive walk that visits
\* pa and pb runs check() for that version of pc exactly once.
C10_DiamondCheckedOnce ==
    (/\ Walked /\ args.r
     /\ world["pa"].known /\ world["pb"].known
     /\ world["pa"].deps["pb"] # NoDep
     /\ Published(world["pa"].deps["pb"])
     /\ Published(world["pa"].deps["pc"]) /\ Published(world["pb"].deps["pc"])
     /\ Resolved(world["pa"].deps["pc"]) = Resolved(world["pb"].deps["pc"])) =>
        Count(checked, key("pc", Resolved(world["pa"].deps["pc"]))) = 1

\* pa and pb require each other and the recursive walk has met both
CycleWalked ==
    /\ args.r /\ world["pa"].known /\ world["pb"].known
    /\ world["pa"].deps["pb"] # NoDep /\ world["pb"].deps["pa"] # NoDep

\* the walk is at a validatePkg call whose query key the memo has
MemoHit ==
    /\ wpc = "walking" /\ Top.pc = "call"
    /\ has(results, key(Top.pkg, Top.version))

\* every specifier of the run is a range that a published version matches
\* (or latest): none is an exact version, none is unpublished
NoExactSpec ==
    /\ parseArg(args.p).version \in {"latest", TildeSpec, CaretSpec}
    /\ \A p, q \in Packages : world[p].deps[q] \in {NoDep, TildeSpec, CaretSpec}

\* every package the walk has met is one whose check() returns the clean Taint
AllClean == \A p \in Packages : world[p].known => world[p].scn = ScenarioClean

\* the query of the command line is one fetchDetails resolves
RootResolves == args.l \/ parseArg(args.p).version # CaretSpec

MetNotClean(p) == world[p].known /\ world[p].scn # ScenarioClean

\* C12: a walk that ends exits with code 0 or 1, and with 0 only if every
\* validate() call of the walk returned true: when a package the walk met
\* has a checkout with a Taint other than the clean one or an artifact that
\* differs, or the lookup of the root failed, the exit code is 1.
C12_AggregateCleanOnlyIfAllClean ==
    Walked =>
        /\ exitCode \in {0, 1}
        /\ exitCode = 0 => \A n \in DOMAIN reported : reported[n].ok
        /\ (\E p \in Packages : MetNotClean(p)) => exitCode = 1
        /\ ~RootResolves => exitCode = 1

\* C12 witness: the root pa is clean (the clean Taint is recorded for it),
\* its dependency pc has a tag that was moved, and the exit code is 1
C12_Witness ==
    /\ Walked /\ args.r /\ exitCode = 1
    /\ get(results, "pa@1.1.0") = TaintNone
    /\ world["pa"].deps["pb"] = NoDep
    /\ world["pc"].known /\ world["pc"].scn = ScenarioRepointed
    /\ get(results, "pc@1.1.0") = Taint("sha-mismatch", [expected |-> "H", found |-> "H2"])

TooLoose == Err("Version specifier is too loose")

\* the validate() call at depth n has had the answer of `npm view` to a
\* specifier two versions match: a list of two candidates
AnsweredWithList(n) ==
    /\ stack[n].version = CaretSpec
    /\ stack[n].pc \in {"check", "report", "loop"}
    /\ stack[n].validator._details.kind # "null"

\* C13: when `npm view` answers with a list, fetchDetails of a validator
\* that is not loose fails (no record, no check()), and fetchDetails of a
\* loose one does not fail and makes the last candidate of the list its
\* record; validate() is called with loose set for every dependency, so
\* only the query of the command line can fail for being too loose.
C13_LooseTakesLastCandidate ==
    \A n \in DOMAIN stack :
        /\ n > 1 => stack[n].loose /\ stack[n].validator.options.loose
        /\ stack[n].error = TooLoose => n = 1 /\ ~args.l
        /\ AnsweredWithList(n) =>
              LET candidates == npmView(stack[n].pkg, CaretSpec, world[stack[n].pkg]).items
                  f == stack[n]
              IN  /\ Len(candidates) = 2
                  /\ ~f.loose =>
                        /\ f.error = TooLoose /\ f.info = NoInfo
                        /\ f.pc # "check" /\ f.result = UndefinedResult
                  /\ f.loose =>
                        /\ f.error # TooLoose
                        /\ f.validator._details = Object(candidates[2])
                        /\ f.pc = "check" => f.info = candidates[2]

\* C13 witness: without -l, the dependency pb@^1.0.0 of pa was resolved to
\* the last candidate, 1.1.0, and that version was checked
C13_Witness ==
    /\ ~args.l /\ Len(stack) = 2 /\ AnsweredWithList(2)
    /\ stack[2].pkg = "pb" /\ stack[2].pc = "report"
    /\ stack[2].info.version = "1.1.0"
    /\ checked[Len(checked)] = "pb@1.1.0"

\* both tag clones have failed
NoTagCloned == git.cloneV = "failed" /\ git.cloneBare = "failed"

\* C14: whenever fetchGitSource fails after both tag clones failed, the
\* error it throws is the error of the clone of "v" + version, whether the
\* fetch by sha was skipped or one of its commands failed.
C14_CloneVErrorSurfaces ==
    (gpc = "failed" /\ NoTagCloned) => git.err = git.errV

\* check() threw the Mismatch error
Mismatched == out.kind = "throw" /\ out.err.message = "Mismatch"

\* C15: the Mismatch error check() throws carries, in its details, the diff
\* text and the Taint fetchGitSource returned for that check.
C15_MismatchCarriesTaint ==
    Mismatched =>
        /\ out.err.details.diff = diffText(diffr.stdout)
        /\ "taint" \in DOMAIN out.err.details
        /\ out.err.details.taint = git.res

\* the validatePkg call of frame f has returned a result that is an outcome
\* of check(), for the version its query was resolved to
FinishedWithOutcome(f) ==
    /\ f.pc \in {"report", "loop"}
    /\ f.result # UndefinedResult
    /\ f.validator._details.kind = "object"

\* C16: a query key is in the memo from before its package is resolved,
\* and once validatePkg has finished with an outcome for the resolved
\* version, also when that outcome was found under the resolved-version
\* key, the memo holds that outcome under the query key and under the
\* resolved-version key.
C16_OutcomeUnderBothKeys ==
    \A n \in DOMAIN stack :
        LET f == stack[n] IN
        /\ f.pc \in {"fetch", "check"} => has(results, key(f.pkg, f.version))
        /\ FinishedWithOutcome(f) =>
              /\ get(results, key(f.pkg, f.version)) = f.result
              /\ get(results, key(f.pkg, f.validator._details.items[1].version)) = f.result

\* validate(q, spec) was called in the walk and has returned
Validated(q, spec) ==
    \E n \in DOMAIN reported : reported[n].pkg = q /\ reported[n].version = spec

\* check() was called for a version of p: validatePkg returned p's record
InfoReturned(p) == \E n \in DOMAIN checked : checked[n] \in {key(p, "1.0.0"), key(p, "1.1.0")}

\* a dependency whose validation fails with an error: its specifier matches
\* no published version, or its artifact holds a file its checkout does not
DependencyFails(p, q) ==
    /\ InfoReturned(p) /\ world[p].deps[q] # NoDep
    /\ \/ world[p].deps[q] = UnpublishedSpec
       \/ world[q].known /\ world[q].scn = ScenarioExtraFile

\* C17: in a recursive walk an error of fetchDetails or check() for one
\* dependency never ends the run (only the abort signal exits with 255):
\* when the walk ends, validate() has been called and has returned for
\* every dependency of every package whose record validatePkg returned,
\* those of the failed package and those after it included, and a failed
\* dependency makes the exit code 1.
C17_ErrorCaughtPerDependency ==
    /\ (wpc = "exited" /\ exitCode = 255) => exiting
    /\ (Walked /\ args.r) =>
          /\ \A p, q \in Packages :
                (InfoReturned(p) /\ world[p].deps[q] # NoDep) =>
                    Validated(q, world[p].deps[q])
          /\ (\E p, q \in Packages : DependencyFails(p, q)) => exitCode = 1

\* C17 witness: pb, the first dependency of pa, failed with Mismatch; its
\* own dependency pc and pa's next dependency pc were validated after it,
\* pc was checked and is clean, and the exit code is 1
C17_Witness ==
    /\ Walked /\ args.r /\ ~exiting /\ exitCode = 1
    /\ DependencyFails("pa", "pb") /\ world["pb"].scn = ScenarioExtraFile
    /\ world["pa"].scn = ScenarioClean
    /\ world["pb"].deps["pc"] = CaretSpec /\ Validated("pc", CaretSpec)
    /\ world["pa"].deps["pc"] = TildeSpec /\ Validated("pc", TildeSpec)
    /\ get(results, "pc@1.1.0") = TaintNone /\ get(results, "pc@1.0.0") = TaintNone
    /\ checked[Len(checked)] = "pc@1.0.0"

\* the loop of the innermost validate() is about to turn once more
AtIteration == wpc = "walking" /\ Top.pc = "loop" /\ Top.deps # <<>>

\* C18: once the signal has set exiting it stays set and no validate() call
\* is started for a dependency; the first turn of a loop reached with
\* exiting set throws out of every validate() in progress and the process
\* exits with code 255; a check() in flight when the signal arrives is not
\* interrupted: it ends as it would have and its result is recorded.
C18_AbortStopsWalk ==
    /\ [][exiting => exiting' /\ Len(stack') <= Len(stack)]_vars
    /\ [][(exiting /\ AtIteration) =>
              stack' = <<>> /\ wpc' = "exited" /\ exitCode' = 255
                  /\ checked' = checked /\ reported' = reported]_vars
    /\ [][(exiting /\ wpc = "walking" /\ Top.pc = "check") =>
              /\ wpc' = "walking" /\ Len(stack') = Len(stack)
              /\ checked' = Append(checked, key(Top.pkg, Top.info.version))
              /\ Top'.pc = "report"
              /\ LET o == checkOutcome(Top.validator, world[Top.pkg].scn) IN
                 IF o.kind = "return"
                 THEN Top'.result = o.taint /\ get(results', checked'[Len(checked')]) = o.taint
                 ELSE Top'.error = o.err]_vars

\* C18 witness: the signal came while pa was being resolved or checked; the
\* check ended and its clean result was recorded, then the first turn of
\* the loop aborted the walk before any dependency was validated
C18_Witness ==
    /\ wpc = "exited" /\ exitCode = 255 /\ exiting
    /\ checked = <<"pa@1.1.0">> /\ get(results, "pa@1.1.0") = TaintNone
    /\ reported = <<>>
    /\ world["pa"].deps["pb"] # NoDep /\ ~world["pb"].known

\* the bytes that were streamed hash to the hash of the record, up to the
\* case of its hex digits
DigestMatchesUpToCase == pkg.digest # "" /\ pkg.digest = LowerHex(pkg.hash)

\* C19: a hash of the record that differs from the computed digest only in
\* the case of its hex digits is accepted, for a hash taken from integrity
\* and for one taken from shasum: fetchPackageSource does not throw 'Bad
\* package hash'.
C19_DigestCaseInsensitive ==
    DigestMatchesUpToCase => pkg.err # Err("Bad package hash") /\ ppc = "done"

\* a tag clone has worked
SomeTagCloned == git.cloneV \notin {"", "failed"} \/ git.cloneBare \notin {"", "failed"}

\* C20: the fetch by sha is entered, the checkout wiped and tag-missing
\* returned only when both tag clones failed; once a tag clone has worked,
\* a failure to read the checked-out commit does none of these.
C20_FallbackOnlyAfterBothClonesFail ==
    /\ (gpc \in FallbackSteps \/ git.wiped \/ git.fetched # <<>>
            \/ git.res.reason = "tag-missing") => NoTagCloned
    /\ SomeTagCloned => ~git.wiped /\ gpc \notin FallbackSteps

====
